---- MODULE Spec2Model ----
(***************************************************************************)
(* LockIN: the process enforcement engine (core/app_blocker.py) and the    *)
(* session state machine (core/session_manager.py), with the OS process    *)
(* table, the wall clock and the SQLite session store as environment.      *)
(*                                                                         *)
(* Strings are sequences of one-character strings, so that str.lower(),    *)
(* the `in` substring test and Path(...).name are computed, not assumed.   *)
(***************************************************************************)
EXTENDS Naturals, Integers, Sequences, FiniteSets, TLC

VARIABLES
    procs,                  \* OS process table: the live pids -> [name, exe]
    now,                    \* time.time(), in whole seconds
    whitelisted_apps,       \* AppBlocker.whitelisted_apps (set of strings)
    whitelisted_processes,  \* AppBlocker.whitelisted_processes (set of pids)
    is_monitoring,          \* AppBlocker.is_monitoring
    monitor_timer,          \* AppBlocker.monitor_timer is active
    known_processes,        \* AppBlocker.known_processes: dict pid -> name
    current_state,          \* SessionManager.current_state
    session_id,             \* SessionManager.session_id (None or a row id)
    session_name,           \* SessionManager.session_name
    session_duration,       \* SessionManager.session_duration, seconds
    session_start_time,     \* SessionManager.session_start_time (None or an instant)
    sm_whitelisted_apps,    \* SessionManager.whitelisted_apps (list of strings)
    apps_blocked_count,     \* SessionManager.apps_blocked_count
    session_timer,          \* SessionManager.session_timer is active
    db,                     \* the store's sessions table: sequence of rows, row id = index
    fresh,                  \* history: the pids launched while the loop runs that no
                            \* scan has enumerated yet
    view,                   \* the front end: what the main window (ui/main_window.py)
                            \* or the Flet page (main_flet.py) shows
    last                    \* the operation executed by the last step, with what it
                            \* returned, emitted, asked of the store and tried to kill

blockerVars == <<whitelisted_apps, whitelisted_processes, is_monitoring,
                 monitor_timer, known_processes>>
sessionVars == <<current_state, session_id, session_name, session_duration,
                 session_start_time, sm_whitelisted_apps, apps_blocked_count,
                 session_timer>>
vars == <<procs, now, whitelisted_apps, whitelisted_processes, is_monitoring,
          monitor_timer, known_processes, current_state, session_id, session_name,
          session_duration, session_start_time, sm_whitelisted_apps,
          apps_blocked_count, session_timer, db, fresh, view, last>>

-----------------------------------------------------------------------------
(* Bounds of the model *)

MaxPid == 2
MaxClock == 90
MaxBlocked == 2
MaxSessions == 1

-----------------------------------------------------------------------------
(* Strings *)

UpperChars == <<"A", "B", "C", "D", "E", "F", "G", "H", "I", "J", "K", "L", "M",
                "N", "O", "P", "Q", "R", "S", "T", "U", "V", "W", "X", "Y", "Z">>
LowerChars == <<"a", "b", "c", "d", "e", "f", "g", "h", "i", "j", "k", "l", "m",
                "n", "o", "p", "q", "r", "s", "t", "u", "v", "w", "x", "y", "z">>

\* "A".."Z" -> "a".."z"
LowerMap ==
    [c \in {UpperChars[i] : i \in 1..Len(UpperChars)} |->
        LowerChars[CHOOSE i \in 1..Len(UpperChars) : UpperChars[i] = c]]

\* str.lower() on one character
LowerChar(c) == IF c \in DOMAIN LowerMap THEN LowerMap[c] ELSE c

\* str.lower()
Lower(s) == [i \in 1..Len(s) |-> LowerChar(s[i])]

\* Python's `w in s` on strings: w occurs in s as a contiguous substring
Contains(s, w) ==
    \E i \in 0..(Len(s) - Len(w)) :
        \A j \in 1..Len(w) : s[i + j] = w[j]

\* `c in s` for a single character
HasChar(s, c) == \E i \in 1..Len(s) : s[i] = c

\* s without its trailing "/" characters (a lone root keeps nothing)
RECURSIVE StripSlashes(_)
StripSlashes(s) ==
    IF Len(s) > 0 /\ s[Len(s)] = "/" THEN StripSlashes(SubSeq(s, 1, Len(s) - 1))
    ELSE s

\* pathlib.Path(app).name with POSIX separators: the last component of the path
PathName(app) ==
    LET t == StripSlashes(app)
        cuts == {i \in 1..Len(t) : t[i] = "/"}
        from == IF cuts = {} THEN 1
                ELSE (CHOOSE i \in cuts : \A k \in cuts : k <= i) + 1
    IN SubSeq(t, from, Len(t))

EmptyStr == <<>>
S_notepad == <<"n", "o", "t", "e", "p", "a", "d", ".", "e", "x", "e">>
S_NOTEPAD == <<"N", "O", "T", "E", "P", "A", "D", ".", "E", "X", "E">>
S_notepad_stem == <<"n", "o", "t", "e", "p", "a", "d">>
S_notepad_bak == <<"n", "o", "t", "e", "p", "a", "d", ".", "e", "x", "e", ".", "b", "a", "k">>
S_calc == <<"c", "a", "l", "c", ".", "e", "x", "e">>
S_systemd == <<"s", "y", "s", "t", "e", "m", "d">>
S_SystemD == <<"S", "y", "s", "t", "e", "m", "D">>
S_Dock == <<"D", "o", "c", "k">>
S_dock == <<"d", "o", "c", "k">>
S_sh == <<"s", "h">>
S_python == <<"p", "y", "t", "h", "o", "n">>
S_cmd == <<"c", "m", "d", ".", "e", "x", "e">>
S_CMD == <<"C", "M", "D", ".", "E", "X", "E">>
S_hp == <<"h", "p">>
P_notepad == <<"/", "b", "i", "n", "/", "n", "o", "t", "e", "p", "a", "d", ".", "e", "x", "e">>
P_Notepad == <<"/", "b", "i", "n", "/", "N", "o", "t", "e", "p", "a", "d", ".", "e", "x", "e">>
P_calc == <<"/", "b", "i", "n", "/", "c", "a", "l", "c", ".", "e", "x", "e">>
P_sh_calc == <<"/", "o", "p", "t", "/", "s", "h", "/", "c", "a", "l", "c", ".", "e", "x", "e">>

-----------------------------------------------------------------------------
(* AppBlocker: the built-in tables and the classifier *)

\* A representative part of AppBlocker.CRITICAL_PROCESSES (43 names in the
\* source), with one of its mixed-case entries
CRITICAL_PROCESSES == {S_systemd, S_sh, S_Dock, S_python}

\* A representative part of AppBlocker.SYSTEM_WHITELIST (153 names)
SYSTEM_WHITELIST == {S_cmd, S_hp}

\* {p.lower() for p in self.CRITICAL_PROCESSES}
CriticalLower == {Lower(p) : p \in CRITICAL_PROCESSES}
\* {p.lower() for p in self.SYSTEM_WHITELIST}
SystemLower == {Lower(p) : p \in SYSTEM_WHITELIST}

\* The user entries normalised by set_whitelisted_apps: each lower-cased, and
\* for an entry holding a separator also the lower-cased file name
NormalizedEntries(apps) ==
    {Lower(apps[i]) : i \in 1..Len(apps)}
    \cup {Lower(PathName(apps[i])) :
            i \in {k \in 1..Len(apps) : HasChar(apps[k], "/") \/ HasChar(apps[k], "\\")}}

\* The value of whitelisted_apps after set_whitelisted_apps(apps)
WhitelistFor(apps) == NormalizedEntries(apps) \cup CriticalLower \cup SystemLower

\* The three substring/path tests made only when exe_path is non-empty
PathMatches(name_lower, exe_path, wl) ==
    LET exe_path_lower == Lower(exe_path)
    IN \/ exe_path_lower \in wl
       \/ \E whitelisted \in wl :
            Contains(exe_path_lower, whitelisted) \/ Contains(name_lower, whitelisted)

\* A classifier that forgets the critical-process floor
IsWhitelisted_NoCritical(name, exe_path, wl) ==
    IF name = EmptyStr THEN TRUE
    ELSE LET name_lower == Lower(name)
         IN \/ name_lower \in wl
            \/ (exe_path # EmptyStr /\ PathMatches(name_lower, exe_path, wl))
            \/ name_lower \in SystemLower

\* AppBlocker._is_whitelisted(name, exe_path), reading whitelisted_apps = wl
_is_whitelisted(name, exe_path, wl) ==
    IF name = EmptyStr THEN TRUE
    ELSE LET name_lower == Lower(name)
         IN \/ name_lower \in wl
            \/ (exe_path # EmptyStr /\ PathMatches(name_lower, exe_path, wl))
            \/ name_lower \in CriticalLower
            \/ name_lower \in SystemLower

-----------------------------------------------------------------------------
(* The environment: the OS process table as psutil shows it *)

PIDs == 1..MaxPid

\* The kinds of process the environment launches: [name, exe]
Proc(name, exe) == [name |-> name, exe |-> exe]
ProcKinds == {Proc(S_notepad, P_notepad), Proc(S_calc, P_calc)}
\* The same with a critical process in place of the user's application
CriticalKinds == {Proc(S_Dock, EmptyStr), Proc(S_calc, P_calc)}

\* The lists of apps a caller passes as whitelist
UserLists == {<<>>, <<S_notepad>>}

\* _is_whitelisted tabulated once for the processes and whitelists above
AllowedTable ==
    [k \in ProcKinds \cup CriticalKinds |->
        [w \in {{}} \cup {WhitelistFor(l) : l \in UserLists} |->
            _is_whitelisted(k.name, k.exe, w)]]

\* self._is_whitelisted(name, exe_path) as the loops call it
is_whitelisted(name, exe_path, wl) ==
    IF Proc(name, exe_path) \in DOMAIN AllowedTable
       /\ wl \in DOMAIN AllowedTable[Proc(name, exe_path)]
    THEN AllowedTable[Proc(name, exe_path)][wl]
    ELSE _is_whitelisted(name, exe_path, wl)

\* psutil.process_iter raises nothing (otherwise: it raises after having
\* yielded the processes whose pid is at most the fail point)
NoFail == -1
FailPoints == {NoFail} \cup (0..(MaxPid - 1))
Enumerated(ps, fail) == {p \in DOMAIN ps : fail = NoFail \/ p <= fail}

\* What proc.terminate() / proc.wait(timeout=1) / proc.kill() do in _block_process:
\*   exited   terminate() delivered, wait() returns: the process is gone
\*   lingers  terminate() delivered, wait() times out, kill() delivered, and the
\*            process is still listed afterwards
\*   nsp      terminate() raises NoSuchProcess: the process had already exited
\*   denied   terminate() raises AccessDenied: the process lives on
BlockOutcomes == {"exited", "lingers", "nsp", "denied"}
\* What proc.terminate() does in close_all_non_whitelisted_apps (no wait, no kill):
\*   exited / lingers  delivered, and the process is gone / still listed afterwards
CloseOutcomes == {"exited", "lingers", "nsp", "denied"}

Remove(f, p) == [q \in (DOMAIN f) \ {p} |-> f[q]]
Put(f, p, v) == [q \in (DOMAIN f) \cup {p} |-> IF q = p THEN v ELSE f[q]]

-----------------------------------------------------------------------------
(* Signals and requests, as recorded in `last` *)

\* One emitted signal. sig: "app_blocked" (AppBlocker, name and path),
\* "error_occurred" (AppBlocker), "blocked_total" (SessionManager.app_blocked,
\* name and running total), "state_changed", "session_started", "session_ended",
\* "session_updated". pid is the process an "app_blocked" is about (the signal
\* itself carries name and path only); state is the argument of "state_changed".
Ev(sig, name, path, num, flag, pid) ==
    [sig |-> sig, name |-> name, path |-> path, num |-> num, flag |-> flag, pid |-> pid,
     state |-> ""]
AppBlockedEv(p, name, exe) == Ev("app_blocked", name, exe, 0, FALSE, p)
ErrorEv == Ev("error_occurred", EmptyStr, EmptyStr, 0, FALSE, 0)

\* One request made of a process: req is "terminate" or "kill", result is "ok",
\* "nsp" or "denied"
Req(p, name, exe, req, result) ==
    [pid |-> p, name |-> name, exe |-> exe, req |-> req, result |-> result]

\* The working state of one enumeration loop of the blocker
Loop(known, wp, ps) ==
    [known |-> known, wp |-> wp, procs |-> ps, events |-> <<>>, attempted |-> <<>>,
     closed_count |-> 0]

-----------------------------------------------------------------------------
(* AppBlocker: the operations *)

\* A _block_process that records and signals a process it could not reach
_block_process_act_Always(st, p, name, exe_path, oc) ==
    LET result == IF oc \in {"nsp", "denied"} THEN oc ELSE "ok"
    IN [st EXCEPT !.procs = IF oc \in {"nsp", "exited"} THEN Remove(@, p) ELSE @,
                  !.attempted = Append(@, Req(p, name, exe_path, "terminate", result)),
                  !.known = Put(@, p, name),
                  !.events = Append(@, AppBlockedEv(p, name, exe_path))]

\* _block_process without its own allow check
_block_process_act(st, p, name, exe_path, oc) ==
    CASE oc = "nsp" ->
           [st EXCEPT !.procs = Remove(@, p),
                      !.attempted = Append(@, Req(p, name, exe_path, "terminate", "nsp"))]
      [] oc = "denied" ->
           [st EXCEPT !.attempted = Append(@, Req(p, name, exe_path, "terminate", "denied"))]
      [] oc = "exited" ->
           [st EXCEPT !.procs = Remove(@, p),
                      !.attempted = Append(@, Req(p, name, exe_path, "terminate", "ok")),
                      !.known = Put(@, p, name),
                      !.events = Append(@, AppBlockedEv(p, name, exe_path))]
      [] oc = "lingers" ->
           [st EXCEPT !.attempted = @ \o <<Req(p, name, exe_path, "terminate", "ok"),
                                           Req(p, name, exe_path, "kill", "ok")>>,
                      !.known = Put(@, p, name),
                      !.events = Append(@, AppBlockedEv(p, name, exe_path))]

\* AppBlocker._block_process(proc, name, exe_path)
_block_process(st, p, name, exe_path, wl, oc) ==
    IF is_whitelisted(name, exe_path, wl) THEN st
    ELSE _block_process_act(st, p, name, exe_path, oc)

\* The body of _check_processes' loop that classifies nothing and blocks every
\* process it has not seen
check_one_NoClassify(st, p, wl, oc) ==
    IF p \in st.wp \/ p \in DOMAIN st.known THEN st
    ELSE _block_process_act(st, p, st.procs[p].name, st.procs[p].exe, oc)

\* The body of _check_processes' loop, for the process with pid p
check_one(st, p, wl, oc) ==
    LET name == st.procs[p].name
        exe_path == st.procs[p].exe
    IN IF p \in st.wp THEN st
       ELSE IF p \in DOMAIN st.known THEN st
       ELSE IF is_whitelisted(name, exe_path, wl)
            THEN [st EXCEPT !.known = Put(@, p, name), !.wp = @ \cup {p}]
            ELSE _block_process(st, p, name, exe_path, wl, oc)

\* AppBlocker._cleanup_dead_processes(current_pids)
_cleanup_dead_processes(known, wp, current_pids) ==
    LET dead_pids == (DOMAIN known) \ current_pids
    IN [known |-> [p \in (DOMAIN known) \ dead_pids |-> known[p]],
        wp |-> wp \ dead_pids]

\* The for loop of _check_processes over the pids p..MaxPid of the snapshot
RECURSIVE check_loop(_, _, _, _, _)
check_loop(st, p, snapshot, wl, oc) ==
    IF p > MaxPid THEN st
    ELSE check_loop(IF p \in snapshot THEN check_one(st, p, wl, oc[p]) ELSE st,
                    p + 1, snapshot, wl, oc)

\* AppBlocker._check_processes() once is_monitoring holds: the loop over the
\* snapshot ps, then the cleanup, or the error signal when the enumeration fails
check_processes_run(ps, wl, wp, known, oc, fail) ==
    LET current_pids == Enumerated(ps, fail)
        st == check_loop(Loop(known, wp, ps), 1, current_pids, wl, oc)
        cl == _cleanup_dead_processes(st.known, st.wp, current_pids)
    IN IF fail = NoFail
       THEN [st EXCEPT !.known = cl.known, !.wp = cl.wp]
       ELSE [st EXCEPT !.events = Append(@, ErrorEv)]

\* The body of _scan_initial_processes' loop that marks nothing
scan_one_NoMark(st, p, wl) ==
    [st EXCEPT !.known = Put(@, p, st.procs[p].name)]

\* The body of _scan_initial_processes' loop, for the process with pid p
scan_one(st, p, wl) ==
    LET name == st.procs[p].name
        st1 == [st EXCEPT !.known = Put(@, p, name)]
    IN IF is_whitelisted(name, st.procs[p].exe, wl)
       THEN [st1 EXCEPT !.wp = @ \cup {p}]
       ELSE st1

RECURSIVE scan_loop(_, _, _, _)
scan_loop(st, p, snapshot, wl) ==
    IF p > MaxPid THEN st
    ELSE scan_loop(IF p \in snapshot THEN scan_one(st, p, wl) ELSE st,
                   p + 1, snapshot, wl)

\* AppBlocker._scan_initial_processes()
_scan_initial_processes(ps, wl, wp, known, fail) ==
    LET st == scan_loop(Loop(known, wp, ps), 1, Enumerated(ps, fail), wl)
    IN IF fail = NoFail THEN st
       ELSE [st EXCEPT !.events = Append(@, ErrorEv)]

\* close_all_non_whitelisted_apps' loop body after its skip: terminate(), count,
\* signal
close_terminate(st, p, wl, oc) ==
    LET name == st.procs[p].name
        exe_path == st.procs[p].exe
    IN CASE oc = "nsp" ->
              [st EXCEPT !.procs = Remove(@, p),
                         !.attempted = Append(@, Req(p, name, exe_path, "terminate", "nsp"))]
         [] oc = "denied" ->
              [st EXCEPT !.attempted =
                            Append(@, Req(p, name, exe_path, "terminate", "denied"))]
         [] oc \in {"exited", "lingers"} ->
              [st EXCEPT !.procs = IF oc = "exited" THEN Remove(@, p) ELSE @,
                         !.attempted = Append(@, Req(p, name, exe_path, "terminate", "ok")),
                         !.closed_count = @ + 1,
                         !.events = Append(@, AppBlockedEv(p, name, exe_path))]

\* The body of close_all_non_whitelisted_apps' loop without its skip
close_one_NoCheck(st, p, wl, oc) == close_terminate(st, p, wl, oc)

\* The body of close_all_non_whitelisted_apps' loop, for the process with pid p
close_one(st, p, wl, oc) ==
    LET name == st.procs[p].name
        exe_path == st.procs[p].exe
    IN IF is_whitelisted(name, exe_path, wl)
       THEN [st EXCEPT !.wp = @ \cup {p}]
       ELSE close_terminate(st, p, wl, oc)

RECURSIVE close_loop(_, _, _, _, _)
close_loop(st, p, snapshot, wl, oc) ==
    IF p > MaxPid THEN st
    ELSE close_loop(IF p \in snapshot THEN close_one(st, p, wl, oc[p]) ELSE st,
                    p + 1, snapshot, wl, oc)

\* AppBlocker.close_all_non_whitelisted_apps(); closed_count is what it returns
close_all_non_whitelisted_apps(ps, wl, wp, known, oc, fail) ==
    LET st == close_loop(Loop(known, wp, ps), 1, Enumerated(ps, fail), wl, oc)
    IN IF fail = NoFail THEN st
       ELSE [st EXCEPT !.events = Append(@, ErrorEv)]

\* A set_whitelisted_apps that keeps the user's entries only
set_whitelisted_apps_UserOnly(apps) == NormalizedEntries(apps)

\* AppBlocker.set_whitelisted_apps(apps): the new whitelisted_apps
set_whitelisted_apps(apps) == WhitelistFor(apps)

\* AppBlocker.start_monitoring(): the blocker's fields afterwards, the signals
\* emitted, and whether the call did start the loop
start_monitoring(ps, wl, wp, known, mon, timer, fail) ==
    IF mon
    THEN [mon |-> mon, timer |-> timer, known |-> known, wp |-> wp, events |-> <<>>,
          started |-> FALSE]
    ELSE LET st == _scan_initial_processes(ps, wl, wp, <<>>, fail)
         IN [mon |-> TRUE, timer |-> TRUE, known |-> st.known, wp |-> st.wp,
             events |-> st.events, started |-> TRUE]

\* AppBlocker.get_blocked_count(): the entries of known_processes whose name
\* is not empty
get_blocked_count(known) == Cardinality({p \in DOMAIN known : known[p] # EmptyStr})

-----------------------------------------------------------------------------
(* The store (database/db_manager.py): the sessions table *)

None == -1

\* One row of sessions as create_session inserts it
NewRow == [status |-> "active", time_locked_in |-> 0, apps_blocked_count |-> 0]

\* One call of the store: call names the method, ok is FALSE when it raised
DbCall(call, id, ok) == [call |-> call, id |-> id, ok |-> ok]

\* A store end_session that records every end as a completion
db_end_session_NoFlag(rows, id, time_locked_in, emergency_exit) ==
    IF id \in 1..Len(rows)
    THEN [rows EXCEPT ![id] = [@ EXCEPT !.status = "completed",
                                        !.time_locked_in = time_locked_in]]
    ELSE rows

\* DatabaseManager.end_session(session_id, time_locked_in, emergency_exit)
db_end_session(rows, id, time_locked_in, emergency_exit) ==
    IF id \in 1..Len(rows)
    THEN [rows EXCEPT ![id] = [@ EXCEPT
              !.status = IF emergency_exit THEN "emergency_exit" ELSE "completed",
              !.time_locked_in = time_locked_in]]
    ELSE rows

\* A store update_session that writes nothing
db_update_blocked_Lost(rows, id, n) == rows

\* DatabaseManager.update_session(session_id, apps_blocked_count=n)
db_update_blocked(rows, id, n) ==
    IF id \in 1..Len(rows)
    THEN [rows EXCEPT ![id] = [@ EXCEPT !.apps_blocked_count = n]]
    ELSE rows

\* DatabaseManager.record_blocked_app(session_id, ...): its effect on sessions
db_record_blocked_app(rows, id) ==
    IF id \in 1..Len(rows)
    THEN [rows EXCEPT ![id] = [@ EXCEPT !.apps_blocked_count = @ + 1]]
    ELSE rows

-----------------------------------------------------------------------------
(* SessionManager *)

IDLE == "idle"
SETUP == "setup"
ACTIVE == "active"
PAUSED == "paused"
ENDING == "ending"
COMPLETED == "completed"
SessionStates == {IDLE, SETUP, ACTIVE, PAUSED, ENDING, COMPLETED}

SecondsPerMinute == 60

StateChangedEv(new_state) ==
    [Ev("state_changed", EmptyStr, EmptyStr, 0, FALSE, 0) EXCEPT !.state = new_state]
BlockedTotalEv(name, total) == Ev("blocked_total", name, EmptyStr, total, FALSE, 0)
SessionStartedEv(id) == Ev("session_started", EmptyStr, EmptyStr, id, FALSE, 0)
SessionEndedEv(id, emergency_exit) ==
    Ev("session_ended", EmptyStr, EmptyStr, id, emergency_exit, 0)
SessionUpdatedEv(elapsed, remaining) ==
    Ev("session_updated", EmptyStr, EmptyStr, elapsed, FALSE, remaining)

\* SessionManager._change_state(new_state): the signals it emits
_change_state(state, new_state) ==
    IF state # new_state THEN <<StateChangedEv(new_state)>> ELSE <<>>

\* SessionManager._on_app_blocked run for each signal of the blocker in evs, in
\* order; recOk[i] tells whether the store's record_blocked_app succeeds for the
\* i-th signal. acc is [count, rows, events, store].
RECURSIVE on_signals(_, _, _, _, _)
on_signals(acc, evs, i, sid, recOk) ==
    IF i > Len(evs) THEN acc
    ELSE LET e == evs[i]
         IN IF e.sig = "app_blocked"
            THEN on_signals(
                   [count |-> acc.count + 1,
                    rows |-> IF sid # None /\ recOk[i]
                             THEN db_record_blocked_app(acc.rows, sid) ELSE acc.rows,
                    events |-> acc.events \o <<e, BlockedTotalEv(e.name, acc.count + 1)>>,
                    store |-> IF sid # None
                              THEN Append(acc.store, DbCall("record_blocked_app", sid, recOk[i]))
                              ELSE acc.store],
                   evs, i + 1, sid, recOk)
            ELSE on_signals([acc EXCEPT !.events = Append(@, e)], evs, i + 1, sid, recOk)

\* An _on_app_blocked that counts and re-emits only the signals the store recorded
RECURSIVE on_signals_Recorded(_, _, _, _, _)
on_signals_Recorded(acc, evs, i, sid, recOk) ==
    IF i > Len(evs) THEN acc
    ELSE LET e == evs[i]
         IN IF e.sig = "app_blocked" /\ (sid = None \/ recOk[i])
            THEN on_signals_Recorded(
                   [count |-> acc.count + 1,
                    rows |-> IF sid # None
                             THEN db_record_blocked_app(acc.rows, sid) ELSE acc.rows,
                    events |-> acc.events \o <<e, BlockedTotalEv(e.name, acc.count + 1)>>,
                    store |-> IF sid # None
                              THEN Append(acc.store, DbCall("record_blocked_app", sid, TRUE))
                              ELSE acc.store],
                   evs, i + 1, sid, recOk)
            ELSE on_signals_Recorded(
                   [acc EXCEPT !.events = Append(@, e),
                               !.store = IF e.sig = "app_blocked"
                                         THEN Append(@, DbCall("record_blocked_app", sid, FALSE))
                                         ELSE @],
                   evs, i + 1, sid, recOk)

_on_app_blocked_Recorded(count, rows, evs, sid, recOk) ==
    on_signals_Recorded([count |-> count, rows |-> rows, events |-> <<>>, store |-> <<>>],
                        evs, 1, sid, recOk)

\* The slots of SessionManager run on the blocker's signals evs
_on_app_blocked(count, rows, evs, sid, recOk) ==
    on_signals([count |-> count, rows |-> rows, events |-> <<>>, store |-> <<>>],
               evs, 1, sid, recOk)

\* A get_elapsed_time that never sees time pass
get_elapsed_time_Frozen(start_time, t) == 0

\* SessionManager.get_elapsed_time()
get_elapsed_time(start_time, t) == IF start_time = None THEN 0 ELSE t - start_time

\* A get_remaining_time that forgets the time elapsed
get_remaining_time_NoElapsed(duration, start_time, t) == duration

\* SessionManager.get_remaining_time()
get_remaining_time(duration, start_time, t) ==
    LET remaining == duration - get_elapsed_time(start_time, t)
    IN IF remaining > 0 THEN remaining ELSE 0

-----------------------------------------------------------------------------
(* Inputs *)

SessionNames == {"Study"}
DurationMinutes == {1}
ClockStep == 30

\* What `last` holds after an operation: its name, what it returned (TRUE for
\* an operation that returns nothing), close_all's count, the signals emitted in
\* order, the store calls made in order, the requests made of processes in
\* order, the pids the operation's enumeration yielded, and (for a call of the
\* classifier) the arguments
Op(op, ret, closed, events, store, attempted, observed) ==
    [op |-> op, ret |-> ret, closed |-> closed, events |-> events, store |-> store,
     attempted |-> attempted, observed |-> observed, args |-> <<>>]
Quiet(op, ret) == Op(op, ret, 0, <<>>, <<>>, <<>>, {})

CountSig(events, sig) == Cardinality({i \in 1..Len(events) : events[i].sig = sig})

-----------------------------------------------------------------------------
(* Initial state: SessionManager.__init__ and AppBlocker.__init__ *)

InitAny ==
    /\ procs \in {<<>>} \cup [PIDs -> ProcKinds \cup CriticalKinds]
    /\ now = ClockStep
    /\ whitelisted_apps = {}
    /\ whitelisted_processes = {}
    /\ is_monitoring = FALSE
    /\ monitor_timer = FALSE
    /\ known_processes = <<>>
    /\ current_state = IDLE
    /\ session_id = None
    /\ session_name = ""
    /\ session_duration = 0
    /\ session_start_time = None
    /\ sm_whitelisted_apps = <<>>
    /\ apps_blocked_count = 0
    /\ session_timer = FALSE
    /\ db = <<>>
    /\ fresh = {}
    /\ last = Quiet("init", TRUE)

\* The value of `view` when no front end is attached
NoView == "none"

Init ==
    /\ InitAny
    /\ procs \in {<<>>} \cup [PIDs -> ProcKinds]
    /\ view = NoView

-----------------------------------------------------------------------------
(* The environment's steps *)

\* A process starts, on any free pid; with track, `fresh` records it
Launch(p, kind, track) ==
    /\ p \notin DOMAIN procs
    /\ procs' = Put(procs, p, kind)
    /\ fresh' = IF track /\ is_monitoring THEN fresh \cup {p} ELSE fresh \ {p}
    /\ last' = Quiet("environment", TRUE)
    /\ UNCHANGED <<now, blockerVars, sessionVars, db, view>>

\* A process exits by itself
Exit(p) ==
    /\ p \in DOMAIN procs
    /\ procs' = Remove(procs, p)
    /\ fresh' = fresh \ {p}
    /\ last' = Quiet("environment", TRUE)
    /\ UNCHANGED <<now, blockerVars, sessionVars, db, view>>

\* Time passes (while no session has started, no operation reads the clock)
Advance ==
    /\ session_start_time # None
    /\ now + ClockStep <= MaxClock
    /\ now' = now + ClockStep
    /\ last' = Quiet("advance", TRUE)
    /\ UNCHANGED <<procs, blockerVars, sessionVars, db, fresh, view>>

\* Time passes during a session that is ACTIVE and has not run its duration
SessionClock ==
    /\ current_state = ACTIVE
    /\ now - session_start_time < session_duration
    /\ now' = now + ClockStep
    /\ last' = Quiet("advance", TRUE)
    /\ UNCHANGED <<procs, blockerVars, sessionVars, db, fresh, view>>

-----------------------------------------------------------------------------
(* AppBlocker's operations called directly *)

SetWhitelistedApps(apps) ==
    /\ whitelisted_apps' = set_whitelisted_apps(apps)
    /\ last' = [Quiet("set_whitelisted_apps", TRUE) EXCEPT !.args = <<apps>>]
    /\ UNCHANGED <<procs, now, whitelisted_processes, is_monitoring, monitor_timer,
                   known_processes, sessionVars, db, fresh>>

StartMonitoring(fail) ==
    LET r == start_monitoring(procs, whitelisted_apps, whitelisted_processes,
                              known_processes, is_monitoring, monitor_timer, fail)
    IN /\ is_monitoring' = r.mon
       /\ monitor_timer' = r.timer
       /\ known_processes' = r.known
       /\ whitelisted_processes' = r.wp
       /\ fresh' = IF r.started THEN {} ELSE fresh
       /\ last' = Op("start_monitoring", TRUE, 0, r.events, <<>>, <<>>,
                     IF r.started THEN Enumerated(procs, fail) ELSE {})
       /\ UNCHANGED <<procs, now, whitelisted_apps, sessionVars, db>>

StopMonitoring ==
    /\ is_monitoring' = FALSE
    /\ monitor_timer' = FALSE
    /\ known_processes' = <<>>
    /\ last' = Quiet("stop_monitoring", TRUE)
    /\ UNCHANGED <<procs, now, whitelisted_apps, whitelisted_processes, sessionVars,
                   db, fresh>>

CloseAll(oc, fail, recOk) ==
    LET st == close_all_non_whitelisted_apps(procs, whitelisted_apps,
                  whitelisted_processes, known_processes, oc, fail)
        sm == _on_app_blocked(apps_blocked_count, db, st.events, session_id, recOk)
    IN /\ sm.count <= MaxBlocked
       /\ procs' = st.procs
       /\ whitelisted_processes' = st.wp
       /\ apps_blocked_count' = sm.count
       /\ db' = sm.rows
       /\ fresh' = fresh \cap DOMAIN st.procs
       /\ last' = Op("close_all_non_whitelisted_apps", TRUE, st.closed_count, sm.events,
                     sm.store, st.attempted, Enumerated(procs, fail))
       /\ UNCHANGED <<now, whitelisted_apps, is_monitoring, monitor_timer,
                      known_processes, current_state, session_id, session_name,
                      session_duration, session_start_time, sm_whitelisted_apps,
                      session_timer>>

\* monitor_timer's timeout: AppBlocker._check_processes()
CheckProcesses(oc, fail, recOk) ==
    /\ monitor_timer
    /\ IF ~is_monitoring
       THEN /\ last' = Quiet("_check_processes", TRUE)
            /\ UNCHANGED <<procs, now, blockerVars, sessionVars, db, fresh>>
       ELSE LET st == check_processes_run(procs, whitelisted_apps,
                          whitelisted_processes, known_processes, oc, fail)
                sm == _on_app_blocked(apps_blocked_count, db, st.events, session_id, recOk)
            IN /\ sm.count <= MaxBlocked
               /\ procs' = st.procs
               /\ known_processes' = st.known
               /\ whitelisted_processes' = st.wp
               /\ apps_blocked_count' = sm.count
               /\ db' = sm.rows
               /\ fresh' = (fresh \ Enumerated(procs, fail)) \cap DOMAIN st.procs
               /\ last' = Op("_check_processes", TRUE, 0, sm.events, sm.store,
                             st.attempted, Enumerated(procs, fail))
               /\ UNCHANGED <<now, whitelisted_apps, is_monitoring, monitor_timer,
                              current_state, session_id, session_name, session_duration,
                              session_start_time, sm_whitelisted_apps, session_timer>>

-----------------------------------------------------------------------------
(* SessionManager's operations *)

\* A setup_session that also accepts a finished session
setup_session_allowed_AfterCompleted(state) == state \in {IDLE, COMPLETED}

\* setup_session's test of the state
setup_session_allowed(state) == state = IDLE

\* setup_session(name, duration_minutes, whitelisted_apps); createOk tells
\* whether the store's create_session succeeds
SetupSession(name, duration_minutes, apps, createOk) ==
    IF ~setup_session_allowed(current_state)
    THEN /\ last' = Quiet("setup_session", FALSE)
         /\ UNCHANGED <<procs, now, blockerVars, sessionVars, db, fresh>>
    ELSE /\ createOk => Len(db) < MaxSessions
         /\ session_name' = name
         /\ session_duration' = duration_minutes * SecondsPerMinute
         /\ sm_whitelisted_apps' = apps
         /\ apps_blocked_count' = 0
         /\ IF createOk
            THEN /\ db' = Append(db, NewRow)
                 /\ session_id' = Len(db) + 1
                 /\ current_state' = SETUP
                 /\ last' = Op("setup_session", TRUE, 0, _change_state(current_state, SETUP),
                               <<DbCall("create_session", Len(db) + 1, TRUE)>>, <<>>, {})
            ELSE /\ last' = Op("setup_session", FALSE, 0, <<>>,
                               <<DbCall("create_session", None, FALSE)>>, <<>>, {})
                 /\ UNCHANGED <<db, session_id, current_state>>
         /\ UNCHANGED <<procs, now, blockerVars, session_start_time, session_timer, fresh>>

\* A start_session that also restarts a paused session
start_session_allowed_FromPaused(state) == state \in {SETUP, PAUSED}

\* A start_session that also runs in a session already started
start_session_allowed_WhileActive(state) == state \in {SETUP, ACTIVE}

\* start_session's test of the state
start_session_allowed(state) == state = SETUP

\* start_session()
StartSession(oc, failClose, failScan, recOk) ==
    IF ~start_session_allowed(current_state)
    THEN /\ last' = Quiet("start_session", FALSE)
         /\ UNCHANGED <<procs, now, blockerVars, sessionVars, db, fresh>>
    ELSE LET wl == set_whitelisted_apps(sm_whitelisted_apps)
             cl == close_all_non_whitelisted_apps(procs, wl, whitelisted_processes,
                       known_processes, oc, failClose)
             r == start_monitoring(cl.procs, wl, cl.wp, known_processes, is_monitoring,
                                   monitor_timer, failScan)
             sm == _on_app_blocked(apps_blocked_count, db, cl.events \o r.events,
                                   session_id, recOk)
         IN /\ sm.count <= MaxBlocked
            /\ whitelisted_apps' = wl
            /\ procs' = cl.procs
            /\ whitelisted_processes' = r.wp
            /\ known_processes' = r.known
            /\ is_monitoring' = r.mon
            /\ monitor_timer' = r.timer
            /\ apps_blocked_count' = sm.count
            /\ db' = sm.rows
            /\ session_start_time' = now
            /\ session_timer' = TRUE
            /\ current_state' = ACTIVE
            /\ fresh' = IF r.started THEN {} ELSE fresh \cap DOMAIN cl.procs
            /\ last' = Op("start_session", TRUE, cl.closed_count,
                          sm.events \o _change_state(current_state, ACTIVE)
                                    \o <<SessionStartedEv(session_id)>>,
                          sm.store, cl.attempted, Enumerated(procs, failClose))
            /\ UNCHANGED <<now, session_id, session_name, session_duration,
                           sm_whitelisted_apps>>

\* An end_session that also ends a session already ended
end_session_allowed_Again(state) == state \in {ACTIVE, PAUSED, COMPLETED}

\* end_session's test of the state
end_session_allowed(state) == state \in {ACTIVE, PAUSED}

\* What end_session(emergency_exit) does to the manager, the blocker and the
\* store in state `state`; endOk and updOk tell whether the store's end_session
\* and update_session succeed
end_session(state, sid, start_time, count, rows, t, emergency_exit, endOk, updOk) ==
    IF ~end_session_allowed(state)
    THEN [accepted |-> FALSE, ret |-> FALSE, state |-> state, rows |-> rows,
          events |-> <<>>, store |-> <<>>]
    ELSE LET time_spent == IF start_time # None /\ start_time # 0
                           THEN t - start_time ELSE 0
             ending == _change_state(state, ENDING)
             rows1 == db_end_session(rows, sid, time_spent, emergency_exit)
             rows2 == db_update_blocked(rows1, sid, count)
         IN IF ~endOk
            THEN [accepted |-> TRUE, ret |-> FALSE, state |-> ENDING, rows |-> rows,
                  events |-> ending, store |-> <<DbCall("end_session", sid, FALSE)>>]
            ELSE IF ~updOk
            THEN [accepted |-> TRUE, ret |-> FALSE, state |-> ENDING, rows |-> rows1,
                  events |-> ending,
                  store |-> <<DbCall("end_session", sid, TRUE),
                              DbCall("update_session", sid, FALSE)>>]
            ELSE [accepted |-> TRUE, ret |-> TRUE, state |-> COMPLETED, rows |-> rows2,
                  events |-> ending \o _change_state(ENDING, COMPLETED)
                                    \o <<SessionEndedEv(sid, emergency_exit)>>,
                  store |-> <<DbCall("end_session", sid, TRUE),
                              DbCall("update_session", sid, TRUE)>>]

\* An end_session that stops the loop and the timer after the store calls
EndEffect_StopLast(op, r) ==
    /\ current_state' = r.state
    /\ db' = r.rows
    /\ IF r.accepted /\ r.ret
       THEN /\ is_monitoring' = FALSE
            /\ monitor_timer' = FALSE
            /\ known_processes' = <<>>
            /\ session_timer' = FALSE
       ELSE UNCHANGED <<is_monitoring, monitor_timer, known_processes, session_timer>>
    /\ UNCHANGED <<procs, now, whitelisted_apps, whitelisted_processes, session_id,
                   session_name, session_duration, session_start_time,
                   sm_whitelisted_apps, apps_blocked_count, fresh>>

\* The variables after end_session returned r, called as operation op
EndEffect(op, r) ==
    /\ current_state' = r.state
    /\ db' = r.rows
    /\ IF r.accepted
       THEN /\ is_monitoring' = FALSE
            /\ monitor_timer' = FALSE
            /\ known_processes' = <<>>
            /\ session_timer' = FALSE
       ELSE UNCHANGED <<is_monitoring, monitor_timer, known_processes, session_timer>>
    /\ UNCHANGED <<procs, now, whitelisted_apps, whitelisted_processes, session_id,
                   session_name, session_duration, session_start_time,
                   sm_whitelisted_apps, apps_blocked_count, fresh>>

\* end_session(emergency_exit) called by the user interface
EndSession(emergency_exit, endOk, updOk) ==
    LET r == end_session(current_state, session_id, session_start_time,
                         apps_blocked_count, db, now, emergency_exit, endOk, updOk)
    IN /\ last' = Op("end_session", r.ret, 0, r.events, r.store, <<>>, {})
       /\ EndEffect("end_session", r)

\* A pause_session that stops the session timer only
PauseSession_KeepsLoop ==
    IF current_state # ACTIVE
    THEN /\ last' = Quiet("pause_session", FALSE)
         /\ UNCHANGED <<procs, now, blockerVars, sessionVars, db, fresh>>
    ELSE /\ session_timer' = FALSE
         /\ current_state' = PAUSED
         /\ last' = Op("pause_session", TRUE, 0, _change_state(current_state, PAUSED),
                       <<>>, <<>>, {})
         /\ UNCHANGED <<procs, now, blockerVars, session_id, session_name,
                        session_duration, session_start_time, sm_whitelisted_apps,
                        apps_blocked_count, db, fresh>>

\* pause_session()
PauseSession ==
    IF current_state # ACTIVE
    THEN /\ last' = Quiet("pause_session", FALSE)
         /\ UNCHANGED <<procs, now, blockerVars, sessionVars, db, fresh>>
    ELSE /\ session_timer' = FALSE
         /\ is_monitoring' = FALSE
         /\ monitor_timer' = FALSE
         /\ known_processes' = <<>>
         /\ current_state' = PAUSED
         /\ last' = Op("pause_session", TRUE, 0, _change_state(current_state, PAUSED),
                       <<>>, <<>>, {})
         /\ UNCHANGED <<procs, now, whitelisted_apps, whitelisted_processes, session_id,
                        session_name, session_duration, session_start_time,
                        sm_whitelisted_apps, apps_blocked_count, db, fresh>>

\* resume_session()
ResumeSession(failScan) ==
    IF current_state # PAUSED
    THEN /\ last' = Quiet("resume_session", FALSE)
         /\ UNCHANGED <<procs, now, blockerVars, sessionVars, db, fresh>>
    ELSE LET r == start_monitoring(procs, whitelisted_apps, whitelisted_processes,
                                   known_processes, is_monitoring, monitor_timer, failScan)
         IN /\ session_timer' = TRUE
            /\ is_monitoring' = r.mon
            /\ monitor_timer' = r.timer
            /\ known_processes' = r.known
            /\ whitelisted_processes' = r.wp
            /\ current_state' = ACTIVE
            /\ fresh' = IF r.started THEN {} ELSE fresh
            /\ last' = Op("resume_session", TRUE, 0,
                          r.events \o _change_state(current_state, ACTIVE), <<>>, <<>>,
                          IF r.started THEN Enumerated(procs, failScan) ELSE {})
            /\ UNCHANGED <<procs, now, whitelisted_apps, session_id, session_name,
                           session_duration, session_start_time, sm_whitelisted_apps,
                           apps_blocked_count, db>>

\* reset()
Reset(endOk, updOk) ==
    LET r == IF current_state = ACTIVE
             THEN end_session(current_state, session_id, session_start_time,
                              apps_blocked_count, db, now, TRUE, endOk, updOk)
             ELSE [accepted |-> FALSE, ret |-> FALSE, state |-> current_state,
                   rows |-> db, events |-> <<>>, store |-> <<>>]
    IN /\ session_timer' = FALSE
       /\ is_monitoring' = FALSE
       /\ monitor_timer' = FALSE
       /\ known_processes' = <<>>
       /\ session_id' = None
       /\ session_name' = ""
       /\ session_duration' = 0
       /\ session_start_time' = None
       /\ sm_whitelisted_apps' = <<>>
       /\ apps_blocked_count' = 0
       /\ current_state' = IDLE
       /\ db' = r.rows
       /\ last' = Op("reset", TRUE, 0, r.events \o _change_state(r.state, IDLE),
                     r.store, <<>>, {})
       /\ UNCHANGED <<procs, now, whitelisted_apps, whitelisted_processes, fresh>>

\* session_timer's timeout: _update_session()
UpdateSession(endOk, updOk) ==
    /\ session_timer
    /\ IF current_state # ACTIVE
       THEN /\ last' = Quiet("_update_session", TRUE)
            /\ UNCHANGED <<procs, now, blockerVars, sessionVars, db, fresh>>
       ELSE LET elapsed == get_elapsed_time(session_start_time, now)
                remaining == get_remaining_time(session_duration, session_start_time, now)
                updated == <<SessionUpdatedEv(elapsed, remaining)>>
            IN IF remaining <= 0
               THEN LET r == end_session(current_state, session_id, session_start_time,
                                         apps_blocked_count, db, now, FALSE, endOk, updOk)
                    IN /\ last' = Op("_update_session", TRUE, 0, updated \o r.events,
                                     r.store, <<>>, {})
                       /\ EndEffect("_update_session", r)
               ELSE /\ last' = Op("_update_session", TRUE, 0, updated, <<>>, <<>>, {})
                    /\ UNCHANGED <<procs, now, blockerVars, sessionVars, db, fresh>>

-----------------------------------------------------------------------------
(* The front ends: MainWindow (ui/main_window.py) and the Flet page
   (main_flet.py). Each owns a SessionManager and drives it from its handlers. *)

\* What a front end's start handler does to the manager: setup_session(name,
\* duration_minutes, apps) and, when that returned True, start_session(). ret
\* is TRUE when both returned True.
SetupAndStart(op, name, duration_minutes, apps, createOk, oc, failClose, failScan, recOk) ==
    IF ~setup_session_allowed(current_state)
    THEN /\ last' = Quiet(op, FALSE)
         /\ UNCHANGED <<procs, now, blockerVars, sessionVars, db, fresh>>
    ELSE IF ~createOk \/ ~start_session_allowed(SETUP)
    THEN /\ session_name' = name
         /\ session_duration' = duration_minutes * SecondsPerMinute
         /\ sm_whitelisted_apps' = apps
         /\ apps_blocked_count' = 0
         /\ IF createOk
            THEN /\ Len(db) < MaxSessions
                 /\ db' = Append(db, NewRow)
                 /\ session_id' = Len(db) + 1
                 /\ current_state' = SETUP
                 /\ last' = Op(op, FALSE, 0, _change_state(current_state, SETUP),
                               <<DbCall("create_session", Len(db) + 1, TRUE)>>, <<>>, {})
            ELSE /\ last' = Op(op, FALSE, 0, <<>>,
                               <<DbCall("create_session", None, FALSE)>>, <<>>, {})
                 /\ UNCHANGED <<db, session_id, current_state>>
         /\ UNCHANGED <<procs, now, blockerVars, session_start_time, session_timer, fresh>>
    ELSE LET sid == Len(db) + 1
             wl == set_whitelisted_apps(apps)
             cl == close_all_non_whitelisted_apps(procs, wl, whitelisted_processes,
                       known_processes, oc, failClose)
             r == start_monitoring(cl.procs, wl, cl.wp, known_processes, is_monitoring,
                                   monitor_timer, failScan)
             sm == _on_app_blocked(0, Append(db, NewRow), cl.events \o r.events, sid, recOk)
         IN /\ Len(db) < MaxSessions
            /\ sm.count <= MaxBlocked
            /\ session_name' = name
            /\ session_duration' = duration_minutes * SecondsPerMinute
            /\ sm_whitelisted_apps' = apps
            /\ session_id' = sid
            /\ whitelisted_apps' = wl
            /\ procs' = cl.procs
            /\ whitelisted_processes' = r.wp
            /\ known_processes' = r.known
            /\ is_monitoring' = r.mon
            /\ monitor_timer' = r.timer
            /\ apps_blocked_count' = sm.count
            /\ db' = sm.rows
            /\ session_start_time' = now
            /\ session_timer' = TRUE
            /\ current_state' = ACTIVE
            /\ fresh' = IF r.started THEN {} ELSE fresh \cap DOMAIN cl.procs
            /\ last' = Op(op, TRUE, cl.closed_count,
                          _change_state(current_state, SETUP) \o sm.events
                              \o _change_state(SETUP, ACTIVE) \o <<SessionStartedEv(sid)>>,
                          <<DbCall("create_session", sid, TRUE)>> \o sm.store,
                          cl.attempted, Enumerated(procs, failClose))
            /\ UNCHANGED now

\* MainWindow: the screen its stack shows and whether the sidebar is shown
Window(stack, sidebar) == [stack |-> stack, sidebar |-> sidebar]

\* MainWindow._on_session_ended, the slot of session_ended, run on the signals
\* an operation emitted
_on_session_ended(v, events) ==
    IF CountSig(events, "session_ended") > 0 THEN Window("end_screen", FALSE) ELSE v

\* MainWindow._start_session(name, duration_mins, apps), the slot of the setup
\* screen's start request
WindowStartSession(name, duration_mins, apps, createOk, oc, failClose, failScan, recOk) ==
    /\ view.stack = "setup_screen"
    /\ SetupAndStart("_start_session", name, duration_mins, apps, createOk, oc,
                     failClose, failScan, recOk)
    /\ view' = IF last'.ret THEN [view EXCEPT !.sidebar = TRUE] ELSE view

\* MainWindow._emergency_exit, the slot of the sidebar's emergency exit request
WindowEmergencyExit(endOk, updOk) ==
    /\ view.sidebar
    /\ EndSession(TRUE, endOk, updOk)
    /\ view' = _on_session_ended([view EXCEPT !.sidebar = FALSE], last'.events)

\* MainWindow._new_session, the slot of the end screen's new session request
WindowNewSession ==
    /\ view.stack = "end_screen"
    /\ view' = Window("setup_screen", FALSE)
    /\ last' = Quiet("_new_session", TRUE)
    /\ UNCHANGED <<procs, now, blockerVars, sessionVars, db, fresh>>

\* The session timer's tick with MainWindow's slots connected
WindowUpdateSession(endOk, updOk) ==
    /\ UpdateSession(endOk, updOk)
    /\ view' = _on_session_ended(view, last'.events)

\* The attributes SessionManager.__init__ gives an instance
SessionManagerAttrs ==
    {"db_manager", "app_blocker", "current_state", "session_id", "session_name",
     "session_duration", "session_start_time", "whitelisted_apps",
     "apps_blocked_count", "session_timer"}

\* The Flet page's route after start_session returned True: reading an
\* attribute the manager does not have raises AttributeError, which the
\* handler catches before page.go
RouteAfterStart(route) ==
    IF "current_session_id" \in SessionManagerAttrs THEN "/lock-in" ELSE route

\* main_flet.start_session_internal(), behind the setup view's start button
FletStartSession(name, duration_mins, apps, createOk, oc, failClose, failScan, recOk) ==
    /\ view = "/"
    /\ SetupAndStart("start_session_internal", name, duration_mins, apps, createOk, oc,
                     failClose, failScan, recOk)
    /\ view' = IF last'.ret THEN RouteAfterStart(view) ELSE view

\* main_flet.emergency_exit_click's confirm_exit, behind the lock-in view's button
FletEmergencyExit(endOk, updOk) ==
    /\ view = "/lock-in"
    /\ EndSession(TRUE, endOk, updOk)
    /\ view' = "/completion"

\* The completion view's button: page.go("/")
FletNewSession ==
    /\ view = "/completion"
    /\ view' = "/"
    /\ last' = Quiet("page.go", TRUE)
    /\ UNCHANGED <<procs, now, blockerVars, sessionVars, db, fresh>>

-----------------------------------------------------------------------------
(* Specifications *)

\* The processes a sweep under whitelist wl asks to terminate
CloseTargets(wl, fail) ==
    {p \in Enumerated(procs, fail) : ~is_whitelisted(procs[p].name, procs[p].exe, wl)}

\* The processes a periodic scan tries to block
BlockTargets(fail) ==
    {p \in CloseTargets(whitelisted_apps, fail) :
        p \notin whitelisted_processes /\ p \notin DOMAIN known_processes}

\* The outcomes worth choosing for a loop: one per process it acts on, a fixed
\* one for the others
Outcomes(kinds, targets) ==
    {oc \in [PIDs -> kinds] : \A p \in PIDs \ targets : oc[p] = "exited"}

\* Whether record_blocked_app succeeds at each signal; it is only called
\* within a session
RecordOks(targets) ==
    {ok \in [1..MaxPid -> BOOLEAN] :
        \A i \in 1..MaxPid : (session_id = None \/ i > Cardinality(targets)) => ok[i]}

\* Whether the store's end_session and update_session succeed: update_session
\* is only called after end_session succeeded, and neither outside a session
\* that end_session accepts
StoreOks(states) ==
    IF current_state \in states
    THEN {<<FALSE, TRUE>>, <<TRUE, FALSE>>, <<TRUE, TRUE>>}
    ELSE {<<TRUE, TRUE>>}

\* Enumerations that do not fail: those of the session manager's calls (the
\* failures are explored by SpecBlocker and SpecCritical below)
SessionFailPoints == {NoFail}

\* The operations of SessionManager and AppBlocker say nothing of `view`, which
\* belongs to the front end: a specification that drives them with no front end
\* attached leaves it unchanged, SpecWindow and SpecFlet below add what the
\* front end's handlers and slots do to it.
Environment(kinds, track) ==
    \/ \E p \in PIDs, kind \in kinds : Launch(p, kind, track)
    \/ \E p \in PIDs : Exit(p)

\* The session manager driven through its interface, with both timers
Next ==
    \/ Environment(ProcKinds, FALSE)
    \/ Advance
    \/ \E name \in SessionNames, m \in DurationMinutes, apps \in UserLists,
          createOk \in BOOLEAN : SetupSession(name, m, apps, createOk) /\ UNCHANGED view
    \/ \E failClose \in SessionFailPoints, failScan \in SessionFailPoints :
          LET targets == CloseTargets(set_whitelisted_apps(sm_whitelisted_apps), failClose)
          IN \E oc \in Outcomes(CloseOutcomes, targets), recOk \in RecordOks(targets) :
                StartSession(oc, failClose, failScan, recOk) /\ UNCHANGED view
    \/ \E e \in BOOLEAN, ok \in StoreOks({ACTIVE, PAUSED}) : EndSession(e, ok[1], ok[2]) /\ UNCHANGED view
    \/ PauseSession /\ UNCHANGED view
    \/ \E failScan \in SessionFailPoints : ResumeSession(failScan) /\ UNCHANGED view
    \/ \E ok \in StoreOks({ACTIVE}) : Reset(ok[1], ok[2]) /\ UNCHANGED view
    \/ \E ok \in StoreOks({ACTIVE}) : UpdateSession(ok[1], ok[2]) /\ UNCHANGED view
    \/ \E fail \in SessionFailPoints :
          \E oc \in Outcomes(BlockOutcomes, BlockTargets(fail)),
             recOk \in RecordOks(BlockTargets(fail)) : CheckProcesses(oc, fail, recOk) /\ UNCHANGED view

Spec == Init /\ [][Next]_vars

\* The session manager driven through its interface with the enumerations of
\* its sweep and of the loop failing at any point, at one instant of the clock
NextFailures ==
    \/ Environment(ProcKinds, FALSE)
    \/ \E name \in SessionNames, m \in DurationMinutes, apps \in UserLists,
          createOk \in BOOLEAN : SetupSession(name, m, apps, createOk) /\ UNCHANGED view
    \/ \E failClose \in FailPoints, failScan \in FailPoints :
          LET targets == CloseTargets(set_whitelisted_apps(sm_whitelisted_apps), failClose)
          IN \E oc \in Outcomes(CloseOutcomes, targets), recOk \in RecordOks(targets) :
                StartSession(oc, failClose, failScan, recOk) /\ UNCHANGED view
    \/ \E e \in BOOLEAN, ok \in StoreOks({ACTIVE, PAUSED}) : EndSession(e, ok[1], ok[2]) /\ UNCHANGED view
    \/ PauseSession /\ UNCHANGED view
    \/ \E failScan \in FailPoints : ResumeSession(failScan) /\ UNCHANGED view
    \/ \E ok \in StoreOks({ACTIVE}) : Reset(ok[1], ok[2]) /\ UNCHANGED view
    \/ \E ok \in StoreOks({ACTIVE}) : UpdateSession(ok[1], ok[2]) /\ UNCHANGED view
    \/ \E fail \in FailPoints :
          \E oc \in Outcomes(BlockOutcomes, BlockTargets(fail)),
             recOk \in RecordOks(BlockTargets(fail)) : CheckProcesses(oc, fail, recOk) /\ UNCHANGED view

SpecFailures == Init /\ [][NextFailures]_vars

\* A session left to run: set up and started, never paused, reset or ended by
\* hand, the store's calls at the end succeeding; the clock keeps advancing and
\* the session timer keeps firing (QTimer, every second while it is active)
NextLive ==
    \/ Environment(ProcKinds, FALSE)
    \/ SessionClock
    \/ \E name \in SessionNames, m \in DurationMinutes, apps \in UserLists,
          createOk \in BOOLEAN : SetupSession(name, m, apps, createOk) /\ UNCHANGED view
    \/ \E failClose \in SessionFailPoints, failScan \in SessionFailPoints :
          LET targets == CloseTargets(set_whitelisted_apps(sm_whitelisted_apps), failClose)
          IN \E oc \in Outcomes(CloseOutcomes, targets), recOk \in RecordOks(targets) :
                StartSession(oc, failClose, failScan, recOk) /\ UNCHANGED view
    \/ UpdateSession(TRUE, TRUE) /\ UNCHANGED view
    \/ \E fail \in SessionFailPoints :
          \E oc \in Outcomes(BlockOutcomes, BlockTargets(fail)),
             recOk \in RecordOks(BlockTargets(fail)) : CheckProcesses(oc, fail, recOk) /\ UNCHANGED view

SpecLive ==
    /\ Init
    /\ [][NextLive]_vars
    /\ WF_vars(SessionClock)
    /\ WF_vars(UpdateSession(TRUE, TRUE) /\ UNCHANGED view)

\* AppBlocker's interface called in any order, the enumerations failing at the
\* points of fails
BlockerCalls(fails) ==
    \/ \E apps \in UserLists : SetWhitelistedApps(apps) /\ UNCHANGED view
    \/ \E fail \in fails : StartMonitoring(fail) /\ UNCHANGED view
    \/ StopMonitoring /\ UNCHANGED view
    \/ \E fail \in fails :
          \E oc \in Outcomes(CloseOutcomes, CloseTargets(whitelisted_apps, fail)),
             recOk \in RecordOks(CloseTargets(whitelisted_apps, fail)) :
                CloseAll(oc, fail, recOk) /\ UNCHANGED view
    \/ \E fail \in fails :
          \E oc \in Outcomes(BlockOutcomes, BlockTargets(fail)),
             recOk \in RecordOks(BlockTargets(fail)) : CheckProcesses(oc, fail, recOk) /\ UNCHANGED view

\* The enforcement loop driven directly through AppBlocker's interface
NextBlocker ==
    \/ Environment(ProcKinds, FALSE)
    \/ BlockerCalls(FailPoints)

SpecBlocker == Init /\ [][NextBlocker]_vars

\* The same with a critical process among the running ones
InitCritical ==
    /\ InitAny
    /\ procs \in {<<>>} \cup [PIDs -> CriticalKinds]
    /\ view = NoView

NextCritical ==
    \/ Environment(CriticalKinds, FALSE)
    \/ BlockerCalls(FailPoints)

SpecCritical == InitCritical /\ [][NextCritical]_vars

\* The same with `fresh` recording the processes launched while the loop runs,
\* and enumerations that do not fail
NextFresh ==
    \/ Environment(ProcKinds, TRUE)
    \/ BlockerCalls(SessionFailPoints)

SpecFresh == Init /\ [][NextFresh]_vars

\* Whether record_blocked_app succeeds at each signal of a sweep over targets
SweepRecordOks(targets) ==
    {ok \in [1..MaxPid -> BOOLEAN] : \A i \in 1..MaxPid : i > Cardinality(targets) => ok[i]}

\* The application with its main window (main.py): the user acts through the
\* window's handlers, both timers run. Closing the window ends the run.
InitWindow ==
    /\ InitAny
    /\ procs \in {<<>>} \cup [PIDs -> ProcKinds]
    /\ view = Window("setup_screen", FALSE)

NextWindow ==
    \/ Environment(ProcKinds, FALSE)
    \/ Advance
    \/ \E name \in SessionNames, m \in DurationMinutes, apps \in UserLists,
          createOk \in BOOLEAN, failClose \in SessionFailPoints,
          failScan \in SessionFailPoints :
          LET targets == CloseTargets(set_whitelisted_apps(apps), failClose)
          IN \E oc \in Outcomes(CloseOutcomes, targets), recOk \in SweepRecordOks(targets) :
                WindowStartSession(name, m, apps, createOk, oc, failClose, failScan, recOk)
    \/ \E ok \in StoreOks({ACTIVE, PAUSED}) : WindowEmergencyExit(ok[1], ok[2])
    \/ WindowNewSession
    \/ \E ok \in StoreOks({ACTIVE}) : WindowUpdateSession(ok[1], ok[2])
    \/ \E fail \in SessionFailPoints :
          \E oc \in Outcomes(BlockOutcomes, BlockTargets(fail)),
             recOk \in RecordOks(BlockTargets(fail)) :
                CheckProcesses(oc, fail, recOk) /\ UNCHANGED view

SpecWindow == InitWindow /\ [][NextWindow]_vars

\* The application with its Flet page (main_flet.py). No Qt event loop runs
\* there, so neither QTimer fires; the handlers of the lock-in and completion
\* views are left out, no behaviour reaching those views (C32).
InitFlet ==
    /\ InitAny
    /\ procs \in {<<>>} \cup [PIDs -> ProcKinds]
    /\ view = "/"

NextFlet ==
    \/ Environment(ProcKinds, FALSE)
    \/ Advance
    \/ \E name \in SessionNames, m \in DurationMinutes, apps \in UserLists,
          createOk \in BOOLEAN, failClose \in SessionFailPoints,
          failScan \in SessionFailPoints :
          LET targets == CloseTargets(set_whitelisted_apps(apps), failClose)
          IN \E oc \in Outcomes(CloseOutcomes, targets), recOk \in SweepRecordOks(targets) :
                FletStartSession(name, m, apps, createOk, oc, failClose, failScan, recOk)

SpecFlet == InitFlet /\ [][NextFlet]_vars

\* A session during which processes start only while it is paused: the
\* process table is empty when the manager is constructed
StartsWhilePaused(kinds) ==
    \E p \in PIDs, kind \in kinds : current_state = PAUSED /\ Launch(p, kind, FALSE)

InitPause == Init /\ procs = <<>>

NextPause ==
    \/ StartsWhilePaused(ProcKinds)
    \/ \E p \in PIDs : Exit(p)
    \/ \E name \in SessionNames, m \in DurationMinutes, apps \in UserLists,
          createOk \in BOOLEAN : SetupSession(name, m, apps, createOk) /\ UNCHANGED view
    \/ \E failClose \in SessionFailPoints, failScan \in SessionFailPoints :
          LET targets == CloseTargets(set_whitelisted_apps(sm_whitelisted_apps), failClose)
          IN \E oc \in Outcomes(CloseOutcomes, targets), recOk \in RecordOks(targets) :
                StartSession(oc, failClose, failScan, recOk) /\ UNCHANGED view
    \/ PauseSession /\ UNCHANGED view
    \/ \E failScan \in SessionFailPoints : ResumeSession(failScan) /\ UNCHANGED view
    \/ \E fail \in SessionFailPoints :
          \E oc \in Outcomes(BlockOutcomes, BlockTargets(fail)),
             recOk \in RecordOks(BlockTargets(fail)) : CheckProcesses(oc, fail, recOk) /\ UNCHANGED view

SpecPause == InitPause /\ [][NextPause]_vars

-----------------------------------------------------------------------------
(* The classifier alone: any whitelist set_whitelisted_apps can build (or none),
   any name and path *)

ClsLists == {<<>>, <<S_notepad>>, <<P_Notepad>>, <<S_notepad_stem>>}
ClsNames == {EmptyStr, S_notepad, S_NOTEPAD, S_notepad_bak, S_calc, S_systemd,
             S_SystemD, S_Dock, S_dock, S_cmd, S_CMD}
ClsPaths == {EmptyStr, P_notepad, P_Notepad, P_calc, P_sh_calc}

\* self._is_whitelisted(name, exe_path)
Classify(name, exe_path) ==
    /\ last' = [Quiet("_is_whitelisted", _is_whitelisted(name, exe_path, whitelisted_apps))
                    EXCEPT !.args = <<name, exe_path>>]
    /\ UNCHANGED <<procs, now, blockerVars, sessionVars, db, fresh>>

InitClassify ==
    /\ InitAny
    /\ procs = <<>>
    /\ view = NoView

NextClassify ==
    \/ \E apps \in ClsLists : SetWhitelistedApps(apps) /\ UNCHANGED view
    \/ \E name \in ClsNames, exe_path \in ClsPaths : Classify(name, exe_path) /\ UNCHANGED view

SpecClassify == InitClassify /\ [][NextClassify]_vars

-----------------------------------------------------------------------------
(* Claims *)

\* The pids an operation asked to terminate or kill
AttemptedPids(l) == {l.attempted[i].pid : i \in 1..Len(l.attempted)}

\* The requests to terminate pid p an operation made, and those delivered
Terminations(l, p) ==
    {i \in 1..Len(l.attempted) : l.attempted[i].pid = p /\ l.attempted[i].req = "terminate"}
Delivered(l, p) == {i \in Terminations(l, p) : l.attempted[i].result = "ok"}

\* The app_blocked signals an operation emitted for pid p
BlockedSignals(l, p) ==
    {i \in 1..Len(l.events) : l.events[i].sig = "app_blocked" /\ l.events[i].pid = p}

\* The live process with pid p is allowed under the current whitelist
AllowedNow(p) == is_whitelisted(procs[p].name, procs[p].exe, whitelisted_apps)

\* C1: a process whose name, compared case-insensitively, is in
\* CRITICAL_PROCESSES is allowed by _is_whitelisted whatever the whitelist holds
\* (also the empty whitelist that was never configured) and whatever its path.
C1_CriticalAlwaysAllowed ==
    (last.op = "_is_whitelisted" /\ Lower(last.args[1]) \in CriticalLower)
        => last.ret = TRUE

C1_Witness ==
    /\ last.op = "_is_whitelisted"
    /\ last.args = <<S_SystemD, EmptyStr>>
    /\ whitelisted_apps = {}
    /\ last.ret = TRUE

\* C2: whatever the order of set_whitelisted_apps, close_all_non_whitelisted_apps,
\* start_monitoring, scans and stop_monitoring, no terminate or kill request is
\* ever made of a process whose name is in CRITICAL_PROCESSES.
C2_CriticalNeverTerminated ==
    \A i \in 1..Len(last.attempted) : Lower(last.attempted[i].name) \notin CriticalLower

C2_Witness ==
    /\ last.op \in {"_check_processes", "close_all_non_whitelisted_apps"}
    /\ whitelisted_apps = {}
    /\ last.attempted # <<>>
    /\ \E p \in last.observed \cap DOMAIN procs : procs[p].name = S_Dock

\* C3: every request close_all_non_whitelisted_apps or a periodic scan makes,
\* and every app_blocked signal they emit, is for a process that _is_whitelisted
\* does not allow under the whitelist in force.
C3_AllowedNeverTerminated ==
    last.op \in {"_check_processes", "close_all_non_whitelisted_apps"} =>
        /\ \A i \in 1..Len(last.attempted) :
              ~_is_whitelisted(last.attempted[i].name, last.attempted[i].exe,
                               whitelisted_apps)
        /\ \A i \in 1..Len(last.events) :
              last.events[i].sig = "app_blocked" =>
                  ~_is_whitelisted(last.events[i].name, last.events[i].path,
                                   whitelisted_apps)

C3_Witness ==
    /\ last.op = "_check_processes"
    /\ last.attempted # <<>>
    /\ \E p \in last.observed \cap DOMAIN procs :
          AllowedNow(p) /\ procs[p].name = S_notepad

\* C4: whenever a whitelist entry occurs as a substring of the lower-cased name
\* or of the lower-cased path, _is_whitelisted allows the process, also when
\* the path is empty.
C4_SubstringAllowed ==
    last.op = "_is_whitelisted" =>
        \A w \in whitelisted_apps :
            (Contains(Lower(last.args[1]), w) \/ Contains(Lower(last.args[2]), w))
                => last.ret = TRUE

\* C5: a process that is not allowed, launched while the loop runs, is asked to
\* terminate by the first scan that enumerates it, and when the request is
\* delivered that scan emits exactly one app_blocked signal for it.
C5_LaunchedBlockedAtFirstScan ==
    [][(last'.op = "_check_processes" /\ is_monitoring)
         => \A p \in fresh \cap last'.observed :
               ~AllowedNow(p) =>
                   /\ Terminations(last', p) # {}
                   /\ Delivered(last', p) # {} =>
                          Cardinality(BlockedSignals(last', p)) = 1]_vars

\* C6: start_monitoring puts every pid it enumerates and finds allowed in
\* whitelisted_processes, and a periodic scan makes no request of a live pid of
\* whitelisted_processes and keeps it there, whatever the whitelist has become.
C6_InitiallyAllowedKept ==
    [][/\ (last'.op = "start_monitoring" /\ ~is_monitoring)
           => \A p \in last'.observed : AllowedNow(p) => p \in whitelisted_processes'
       /\ last'.op = "_check_processes"
           => \A p \in whitelisted_processes \cap DOMAIN procs :
                 /\ p \notin AttemptedPids(last')
                 /\ p \in DOMAIN procs'
                 /\ p \in whitelisted_processes']_vars

C6_Witness ==
    /\ last.op = "_check_processes"
    /\ \E p \in whitelisted_processes \cap last.observed \cap DOMAIN procs :
          /\ p \in DOMAIN known_processes
          /\ procs[p].name = S_notepad
          /\ ~AllowedNow(p)

\* C7: with whitelist ["notepad.exe"], pid 1 notepad.exe and pid 2 calc.exe
\* running and nothing blocked yet, start_monitoring leaves pid 1 in
\* whitelisted_processes, and the first scan after it asks pid 2 to terminate
\* and, the request delivered, emits one app_blocked signal for it and brings
\* the blocked count to 1.
C7_FirstTickBlocksCalc ==
    [][(/\ last.op = "start_monitoring"
        /\ last.observed = {1, 2}
        /\ whitelisted_apps = WhitelistFor(<<S_notepad>>)
        /\ procs = (1 :> Proc(S_notepad, P_notepad) @@ 2 :> Proc(S_calc, P_calc))
        /\ apps_blocked_count = 0
        /\ last'.op = "_check_processes"
        /\ last'.observed = {1, 2})
         => /\ 1 \in whitelisted_processes
            /\ Terminations(last', 2) # {}
            /\ Delivered(last', 2) # {} =>
                   /\ Cardinality(BlockedSignals(last', 2)) = 1
                   /\ apps_blocked_count' = 1]_vars

\* C8: after a scan that completed, every pid of known_processes and of
\* whitelisted_processes is one the scan's snapshot held.
C8_VanishedForgotten ==
    (last.op = "_check_processes" /\ CountSig(last.events, "error_occurred") = 0)
        => (DOMAIN known_processes) \cup whitelisted_processes \subseteq last.observed

\* C9: setup_session called in a state other than IDLE returns failure, makes no
\* store call, emits nothing and leaves the manager, the blocker and the store
\* as they were.
C9_SetupRejectedOutsideIdle ==
    [][(last'.op = "setup_session" /\ current_state # IDLE)
         => /\ last'.ret = FALSE
            /\ last'.store = <<>>
            /\ last'.events = <<>>
            /\ UNCHANGED <<sessionVars, blockerVars, db, procs>>]_vars

C9_Witness ==
    /\ last.op = "setup_session"
    /\ last.ret = FALSE
    /\ current_state = COMPLETED
    /\ session_id # None

\* C10: start_session called in a state other than SETUP returns failure, asks no
\* process to terminate, emits nothing and leaves the whitelist, the loop, the
\* tick, the start instant and the state as they were.
C10_StartRejectedOutsideSetup ==
    [][(last'.op = "start_session" /\ current_state # SETUP)
         => /\ last'.ret = FALSE
            /\ last'.attempted = <<>>
            /\ last'.events = <<>>
            /\ last'.store = <<>>
            /\ UNCHANGED <<sessionVars, blockerVars, db, procs>>]_vars

C10_Witness ==
    /\ last.op = "start_session"
    /\ last.ret = FALSE
    /\ current_state = PAUSED
    /\ \E p \in DOMAIN procs : ~is_whitelisted(procs[p].name, procs[p].exe, whitelisted_apps)

\* The session_ended signals an operation emitted
EndedSignals(l) == {i \in 1..Len(l.events) : l.events[i].sig = "session_ended"}

\* C11: end_session called when the session has already ended returns failure,
\* makes no store call, emits nothing and changes nothing; and a session_ended
\* signal is only emitted for a session whose row was still active and is
\* ended by that step for good, hence at most once for each session.
C11_EndedAtMostOnce ==
    [][/\ (last'.op = "end_session" /\ current_state \in {ENDING, COMPLETED})
           => /\ last'.ret = FALSE
              /\ last'.store = <<>>
              /\ last'.events = <<>>
              /\ UNCHANGED <<sessionVars, blockerVars, db, procs>>
       /\ \A i \in EndedSignals(last') :
              /\ Cardinality(EndedSignals(last')) = 1
              /\ last'.events[i].num \in DOMAIN db
              /\ db[last'.events[i].num].status = "active"
       /\ \A id \in DOMAIN db :
              db[id].status # "active" => (id \in DOMAIN db' /\ db'[id].status # "active")]_vars

C11_Witness ==
    /\ last.op = "end_session"
    /\ last.ret = FALSE
    /\ current_state = COMPLETED
    /\ session_id \in DOMAIN db
    /\ db[session_id].status = "completed"

\* The state_changed signals for state st an operation emitted
ChangesTo(l, st) ==
    {i \in 1..Len(l.events) : l.events[i].sig = "state_changed" /\ l.events[i].state = st}

\* C12: a tick of the session timer calls end_session exactly when the state
\* is ACTIVE and the planned duration has elapsed; it calls it once, with
\* emergency_exit false, the tick is stopped and the state has left ACTIVE when
\* it returns, and a session that has left ACTIVE that way is never ACTIVE again.
C12_TickEndsOnce ==
    [][/\ last'.op = "_update_session"
           => /\ ChangesTo(last', ENDING) # {}
                    <=> /\ current_state = ACTIVE
                        /\ now - session_start_time >= session_duration
              /\ ChangesTo(last', ENDING) # {}
                    => /\ Cardinality(ChangesTo(last', ENDING)) = 1
                       /\ current_state' \in {ENDING, COMPLETED}
                       /\ ~session_timer'
                       /\ \A i \in EndedSignals(last') : last'.events[i].flag = FALSE
                       /\ db'[session_id].status \in {"active", "completed"}
       /\ current_state \in {ENDING, COMPLETED}
           => current_state' \in {ENDING, COMPLETED, IDLE}]_vars

C12_Witness ==
    /\ last.op = "_update_session"
    /\ current_state = COMPLETED
    /\ EndedSignals(last) # {}
    /\ db[session_id].status = "completed"

\* C13: a session set up and started, left to run with the clock advancing, the
\* timer firing and the store working, reaches COMPLETED through a tick that
\* emits session_ended with emergency_exit false; and a tick only ends the
\* session once the planned duration has elapsed.
C13_RunsToCompletion ==
    /\ (current_state = ACTIVE)
          ~> /\ current_state = COMPLETED
             /\ last.op = "_update_session"
             /\ \E i \in EndedSignals(last) :
                   last.events[i].flag = FALSE /\ last.events[i].num = session_id
    /\ [][(last'.op = "_update_session" /\ EndedSignals(last') # {})
             => now - session_start_time >= session_duration]_vars

C13_Witness ==
    /\ current_state = COMPLETED
    /\ last.op = "_update_session"
    /\ now - session_start_time = session_duration
    /\ session_duration = SecondsPerMinute
    /\ \E i \in EndedSignals(last) : last.events[i].flag = FALSE

C15_FailedEndStillStops ==
    /\ [][(last'.op = "end_session" /\ current_state \in {ACTIVE, PAUSED}
                /\ \E i \in 1..Len(last'.store) : ~last'.store[i].ok)
             => /\ last'.ret = FALSE
                /\ ~is_monitoring' /\ ~monitor_timer' /\ ~session_timer'
                /\ current_state' = ENDING]_vars
    /\ [](current_state = ENDING
             => /\ ~is_monitoring /\ ~monitor_timer /\ ~session_timer
                /\ last.attempted = <<>>)

C15_Witness ==
    /\ last.op = "end_session"
    /\ last.ret = FALSE
    /\ last.store = <<DbCall("end_session", session_id, FALSE)>>
    /\ ~is_monitoring
    /\ \E p \in DOMAIN procs : ~AllowedNow(p)

\* C16: when end_session has returned, with success or with failure, also when
\* called by the tick or by reset, the state is not ENDING.
C16_NeverRestsInEnding ==
    last.op \in {"end_session", "_update_session", "reset"} => current_state # ENDING

\* C17: whenever the loop or its timer runs the state is ACTIVE, a state in
\* which end_session is accepted; and an end_session called while the loop
\* runs is accepted (it enters ENDING) and returns with the loop and its timer
\* stopped, whatever the enumerations, the termination requests and the store
\* did before or do during the call.
C17_EmergencyExitAlwaysStops ==
    /\ []((is_monitoring \/ monitor_timer) => current_state = ACTIVE)
    /\ [][(last'.op = "end_session" /\ (is_monitoring \/ monitor_timer))
             => /\ ChangesTo(last', ENDING) # {}
                /\ ~is_monitoring'
                /\ ~monitor_timer']_vars

C17_Witness ==
    /\ last.op = "end_session"
    /\ ChangesTo(last, ENDING) # {}
    /\ \E i \in 1..Len(last.store) : ~last.store[i].ok
    /\ ~is_monitoring
    /\ apps_blocked_count > 0
    /\ \E p \in DOMAIN procs : ~AllowedNow(p)

\* C18: a setup_session called in IDLE in which the store's create_session
\* fails returns failure, leaves the state IDLE and leaves session_name,
\* session_duration, the whitelist, the blocked count and session_id as they
\* were.
C18_FailedSetupChangesNothing ==
    [][(last'.op = "setup_session" /\ current_state = IDLE
            /\ last'.store = <<DbCall("create_session", None, FALSE)>>)
         => /\ last'.ret = FALSE
            /\ current_state' = IDLE
            /\ UNCHANGED <<session_name, session_duration, sm_whitelisted_apps,
                           apps_blocked_count, session_id>>]_vars

\* C19: pause_session succeeds in ACTIVE only and resume_session in PAUSED
\* only, and a refused call changes nothing; pause stops the session timer,
\* the loop and its timer, resume starts all three; neither touches the start
\* instant, the planned duration or the blocked count, so that the elapsed
\* time read after resume counts from the original start, pause included.
C19_PauseResume ==
    [][/\ last'.op = "pause_session"
           => IF current_state = ACTIVE
              THEN /\ last'.ret = TRUE
                   /\ current_state' = PAUSED
                   /\ ~session_timer' /\ ~is_monitoring' /\ ~monitor_timer'
                   /\ UNCHANGED <<session_start_time, session_duration,
                                  apps_blocked_count>>
              ELSE /\ last'.ret = FALSE
                   /\ last'.events = <<>>
                   /\ UNCHANGED <<sessionVars, blockerVars, db, procs>>
       /\ last'.op = "resume_session"
           => IF current_state = PAUSED
              THEN /\ last'.ret = TRUE
                   /\ current_state' = ACTIVE
                   /\ session_timer' /\ is_monitoring' /\ monitor_timer'
                   /\ UNCHANGED <<session_start_time, session_duration,
                                  apps_blocked_count>>
                   /\ get_elapsed_time(session_start_time', now') = now - session_start_time
              ELSE /\ last'.ret = FALSE
                   /\ last'.events = <<>>
                   /\ UNCHANGED <<sessionVars, blockerVars, db, procs>>]_vars

C19_Witness ==
    /\ last.op = "resume_session"
    /\ last.ret = TRUE
    /\ is_monitoring
    /\ apps_blocked_count > 0
    /\ now - session_start_time >= session_duration

\* C20: reset() ends in IDLE with the loop, its timer and the session timer
\* stopped and the session fields cleared, whatever the store does; and called
\* in ACTIVE it emits a session_ended signal with emergency_exit true before
\* the state_changed signal for IDLE.
C20_ResetClears ==
    [][last'.op = "reset"
         => /\ current_state' = IDLE
            /\ ~is_monitoring' /\ ~monitor_timer' /\ ~session_timer'
            /\ session_id' = None
            /\ session_name' = ""
            /\ session_duration' = 0
            /\ session_start_time' = None
            /\ sm_whitelisted_apps' = <<>>
            /\ apps_blocked_count' = 0
            /\ current_state = ACTIVE
                  => \E i \in EndedSignals(last'), j \in ChangesTo(last', IDLE) :
                        last'.events[i].flag = TRUE /\ i < j]_vars

\* The aggregate signals (SessionManager.app_blocked) an operation emitted
BlockedTotals(l) == {i \in 1..Len(l.events) : l.events[i].sig = "blocked_total"}

\* C21: every app_blocked signal of the blocker, from the sweep of start_session
\* or from a periodic scan, is followed at once by one aggregate signal with the
\* same name; the j-th aggregate signal of an operation carries the blocked
\* count before the operation plus j, and the count ends at that value, also
\* when record_blocked_app fails; an accepted setup_session and reset set the
\* count to 0 and emit no aggregate signal. Hence the k-th aggregate signal
\* after setup_session carries k.
C21_BlockedCounted ==
    [][/\ \A i \in 1..Len(last'.events) :
             last'.events[i].sig = "app_blocked"
                => /\ i < Len(last'.events)
                   /\ last'.events[i + 1].sig = "blocked_total"
                   /\ last'.events[i + 1].name = last'.events[i].name
       /\ \A i \in BlockedTotals(last') :
             /\ i > 1
             /\ last'.events[i - 1].sig = "app_blocked"
             /\ last'.events[i].num =
                   apps_blocked_count + Cardinality({k \in BlockedTotals(last') : k <= i})
       /\ IF last'.op = "reset" \/ (last'.op = "setup_session" /\ current_state = IDLE)
          THEN BlockedTotals(last') = {} /\ apps_blocked_count' = 0
          ELSE apps_blocked_count' = apps_blocked_count + Cardinality(BlockedTotals(last'))
       /\ (BlockedTotals(last') # {} /\ last'.op # "start_session")
             => last'.op = "_check_processes"]_vars

C21_Witness ==
    /\ last.op = "_check_processes"
    /\ apps_blocked_count = 2
    /\ \E i \in BlockedTotals(last) : last.events[i].num = 2 /\ last.events[i].name = S_calc
    /\ \E i \in 1..Len(last.store) :
          last.store[i].call = "record_blocked_app" /\ ~last.store[i].ok

\* C22: set_whitelisted_apps(apps) leaves in whitelisted_apps the lower-cased
\* form of every name of CRITICAL_PROCESSES and of SYSTEM_WHITELIST and of every
\* entry of apps; no later step other than a further set_whitelisted_apps
\* changes whitelisted_apps, so that once configured it holds the built-in names
\* in every state.
C22_WhitelistFloor ==
    /\ [][IF last'.op = "set_whitelisted_apps"
          THEN /\ CriticalLower \cup SystemLower \subseteq whitelisted_apps'
               /\ \A i \in 1..Len(last'.args[1]) :
                     Lower(last'.args[1][i]) \in whitelisted_apps'
          ELSE whitelisted_apps' = whitelisted_apps]_vars
    /\ [](whitelisted_apps # {}
             => \A n \in CRITICAL_PROCESSES \cup SYSTEM_WHITELIST :
                   Lower(n) \in whitelisted_apps)

C22_Witness ==
    /\ last.op = "_is_whitelisted"
    /\ Lower(P_Notepad) \in whitelisted_apps
    /\ P_Notepad \notin whitelisted_apps
    /\ S_dock \in whitelisted_apps
    /\ S_Dock \notin whitelisted_apps
    /\ S_cmd \in whitelisted_apps

\* C23: in every run of the session manager, whitelisted_apps changes only in a
\* step of start_session (the one caller of set_whitelisted_apps), and every
\* start_session that runs set_whitelisted_apps finds the loop and its timer
\* stopped; hence whitelisted_apps is the same before and after every step
\* taken while the loop runs, scans included.
C23_ConfiguredWhileStopped ==
    [][/\ whitelisted_apps' # whitelisted_apps => last'.op = "start_session"
       /\ (last'.op = "start_session" /\ last'.ret = TRUE)
             => /\ ~is_monitoring /\ ~monitor_timer
                /\ whitelisted_apps' = WhitelistFor(sm_whitelisted_apps)
       /\ (is_monitoring \/ monitor_timer) => whitelisted_apps' = whitelisted_apps]_vars

C23_Witness ==
    /\ last.op = "_check_processes"
    /\ is_monitoring
    /\ whitelisted_apps = WhitelistFor(<<S_notepad>>)
    /\ last.attempted # <<>>
    /\ \E p \in DOMAIN procs : procs[p].name = S_notepad

\* The states the manager goes through in the step that led to `last`, from
\* state s0: s0, then the argument of each state_changed signal in order
StatePath(l, s0) ==
    LET idx == {i \in 1..Len(l.events) : l.events[i].sig = "state_changed"}
        RECURSIVE walk(_)
        walk(i) == IF i > Len(l.events) THEN <<>>
                   ELSE IF i \in idx THEN <<l.events[i].state>> \o walk(i + 1)
                   ELSE walk(i + 1)
    IN <<s0>> \o walk(1)

\* The state graph: the changes of state and the operations that make them
\* (end_session is also called by the tick of the session timer and by reset)
GraphEdge(a, b, op) ==
    \/ a = IDLE /\ b = SETUP /\ op = "setup_session"
    \/ a = SETUP /\ b = ACTIVE /\ op = "start_session"
    \/ a = ACTIVE /\ b = PAUSED /\ op = "pause_session"
    \/ a = PAUSED /\ b = ACTIVE /\ op = "resume_session"
    \/ a \in {ACTIVE, PAUSED} /\ b = ENDING
          /\ op \in {"end_session", "_update_session", "reset"}
    \/ a = ENDING /\ b = COMPLETED /\ op \in {"end_session", "_update_session", "reset"}
    \/ a # IDLE /\ b = IDLE /\ op = "reset"

\* C24: the state starts as IDLE, and every change of the state, each announced
\* by a state_changed signal, is an edge of the graph made by the operation the
\* graph names for it; the state never changes without a signal.
C24_StateGraph ==
    /\ current_state = IDLE
    /\ [][LET path == StatePath(last', current_state)
          IN /\ \A i \in 1..(Len(path) - 1) : GraphEdge(path[i], path[i + 1], last'.op)
             /\ current_state' = path[Len(path)]]_vars

C24_Witness ==
    /\ last.op = "reset"
    /\ ChangesTo(last, ENDING) # {}
    /\ ChangesTo(last, COMPLETED) # {}
    /\ ChangesTo(last, IDLE) # {}
    /\ current_state = IDLE

\* C25: every pid a periodic scan asks to terminate is in known_processes when
\* the scan returns, whatever the request did (the process exited, was killed,
\* had already gone, or access was denied).
C25_AttemptedRecorded ==
    [][(last'.op = "_check_processes" /\ is_monitoring)
         => \A p \in AttemptedPids(last') : p \in DOMAIN known_processes']_vars

\* C26: stop_monitoring stops the loop and its timer and empties
\* known_processes; and after a start_monitoring that follows it, every pid of
\* whitelisted_processes is one that start's scan enumerated and found allowed.
C26_WhitelistedPidsRebuilt ==
    [][/\ last'.op = "stop_monitoring"
           => ~is_monitoring' /\ ~monitor_timer' /\ known_processes' = <<>>
       /\ (last.op = "stop_monitoring" /\ last'.op = "start_monitoring"
             /\ CountSig(last'.events, "error_occurred") = 0)
           => \A p \in whitelisted_processes' :
                 /\ p \in last'.observed
                 /\ p \in DOMAIN procs
                 /\ AllowedNow(p)]_vars

\* The pids whose terminate() raised NoSuchProcess or AccessDenied
Unreached(l) ==
    {l.attempted[i].pid : i \in {k \in 1..Len(l.attempted) :
                                    l.attempted[k].result \in {"nsp", "denied"}}}

C28_FailedScanHarmless ==
    [][(last'.op = "_check_processes" /\ is_monitoring
            /\ CountSig(last'.events, "error_occurred") > 0)
         => /\ CountSig(last'.events, "error_occurred") = 1
            /\ is_monitoring' /\ monitor_timer'
            /\ UNCHANGED <<current_state, apps_blocked_count, session_timer>>]_vars

\* C29: close_all_non_whitelisted_apps, with the loop running or stopped, puts
\* the pid of every allowed process it enumerates in whitelisted_processes and
\* asks every other one to terminate, once, with no wait and no kill; it
\* returns the number of app_blocked signals it emitted, one for each process
\* whose request was delivered; it leaves known_processes, is_monitoring and
\* the loop's timer as they were.
C29_SweepCounts ==
    [][last'.op = "close_all_non_whitelisted_apps"
         => /\ last'.closed = CountSig(last'.events, "app_blocked")
            /\ \A p \in PIDs :
                  Cardinality(BlockedSignals(last', p)) =
                      IF Delivered(last', p) # {} THEN 1 ELSE 0
            /\ \A i \in 1..Len(last'.attempted) : last'.attempted[i].req = "terminate"
            /\ \A p \in last'.observed :
                  IF AllowedNow(p)
                  THEN p \in whitelisted_processes' /\ p \notin AttemptedPids(last')
                  ELSE Cardinality(Terminations(last', p)) = 1
            /\ CountSig(last'.events, "error_occurred") = 0
                  => last'.observed = DOMAIN procs
            /\ whitelisted_processes' =
                  whitelisted_processes \cup {p \in last'.observed : AllowedNow(p)}
            /\ UNCHANGED <<known_processes, is_monitoring, monitor_timer>>]_vars

C29_Witness ==
    /\ last.op = "close_all_non_whitelisted_apps"
    /\ ~is_monitoring
    /\ last.closed = 1
    /\ last.observed = {1, 2}
    /\ \E p \in whitelisted_processes \cap DOMAIN procs : procs[p].name = S_notepad
    /\ \E i \in 1..Len(last.attempted) : last.attempted[i].name = S_calc
    /\ known_processes = <<>>

\* The decision in seven steps, the first that applies deciding, on the
\* lower-cased name and path and whitelist wl
Decision(name, exe_path, wl) ==
    LET n == Lower(name)
        e == Lower(exe_path)
    IN IF name = EmptyStr THEN TRUE
       ELSE IF n \in wl THEN TRUE
       ELSE IF exe_path # EmptyStr /\ e \in wl THEN TRUE
       ELSE IF exe_path # EmptyStr /\ \E w \in wl : Contains(e, w) THEN TRUE
       ELSE IF exe_path # EmptyStr /\ \E w \in wl : Contains(n, w) THEN TRUE
       ELSE IF n \in {Lower(c) : c \in CRITICAL_PROCESSES} THEN TRUE
       ELSE IF n \in {Lower(c) : c \in SYSTEM_WHITELIST} THEN TRUE
       ELSE FALSE

\* C30: _is_whitelisted returns what the seven-step decision gives, for every
\* name, path and whitelist; it returns the same for the lower-cased name and
\* path, and set_whitelisted_apps builds the same whitelist from a list and from
\* its lower-cased entries.
C30_SevenSteps ==
    last.op = "_is_whitelisted" =>
        /\ last.ret = Decision(last.args[1], last.args[2], whitelisted_apps)
        /\ last.ret = _is_whitelisted(Lower(last.args[1]), Lower(last.args[2]),
                                      whitelisted_apps)
        /\ \A l \in ClsLists :
              set_whitelisted_apps(l) = set_whitelisted_apps([i \in 1..Len(l) |-> Lower(l[i])])

C30_Witness ==
    /\ last.op = "_is_whitelisted"
    /\ last.args = <<S_NOTEPAD, P_calc>>
    /\ whitelisted_apps = WhitelistFor(<<P_Notepad>>)
    /\ last.ret = TRUE

-----------------------------------------------------------------------------
(* The front ends' claims *)

\* No store call of the operation recorded in l failed
StoreWorked(l) == \A i \in 1..Len(l.store) : l.store[i].ok

\* C31: after a session has ended (state COMPLETED) and _new_session has put
\* the setup screen back, a _start_session whose store calls all work gets
\* success from setup_session and start_session.
C31_SecondSessionStarts ==
    [][(/\ current_state = COMPLETED
        /\ view.stack = "setup_screen"
        /\ last'.op = "_start_session"
        /\ StoreWorked(last'))
       => last'.ret]_vars

\* C32: in the Flet front end, once start_session() has returned success the
\* page is on the lock-in route: it is never on another view while the session
\* is ACTIVE.
C32_ActiveOnLockIn == current_state = ACTIVE => view = "/lock-in"

-----------------------------------------------------------------------------
(* The blocker's bookkeeping *)

\* C33: get_blocked_count returns the number of processes blocked since
\* monitoring started, so right after a start_monitoring() that started the
\* loop, whatever its initial scan recorded, it returns 0.
C33_CountsBlockedOnly ==
    (last.op = "start_monitoring" /\ last.observed # {})
        => get_blocked_count(known_processes) = 0

-----------------------------------------------------------------------------
(* The session and the loop *)

\* C34: between operations of the session manager the enforcement loop
\* (is_monitoring and its timer) runs exactly when the state is ACTIVE, and so
\* does the session tick; hence a periodic scan only ever runs, and requests
\* terminations, in ACTIVE.
C34_LoopIffActive ==
    /\ [](is_monitoring <=> current_state = ACTIVE)
    /\ [](monitor_timer <=> current_state = ACTIVE)
    /\ [](session_timer <=> current_state = ACTIVE)
    /\ [][last'.op = "_check_processes" => current_state = ACTIVE]_vars

C34_Witness ==
    /\ current_state = PAUSED
    /\ ~is_monitoring
    /\ ~monitor_timer
    /\ ~session_timer
    /\ apps_blocked_count > 0
    /\ \E p \in DOMAIN procs : ~AllowedNow(p)

\* C35: while the loop runs, after start_monitoring() and after every scan
\* that completed (no error signal), every pid of whitelisted_processes is
\* recorded in known_processes.
C35_WhitelistedAreKnown ==
    (/\ is_monitoring
     /\ last.op \in {"start_monitoring", "_check_processes"}
     /\ CountSig(last.events, "error_occurred") = 0)
        => whitelisted_processes \subseteq DOMAIN known_processes

\* C36: every live process that is not allowed and was launched while the
\* session was PAUSED has its termination requested by the periodic scans that
\* follow the resume. Under SpecPause every process was launched during a
\* pause, so each scan that enumerates such a process requests its termination.
C36_PausedLaunchesBlocked ==
    [][(last'.op = "_check_processes" /\ current_state = ACTIVE)
          => \A p \in last'.observed :
                ~AllowedNow(p) => p \in AttemptedPids(last')]_vars

\* C37: within a session at most one app_blocked is emitted for a pid while it
\* stays alive; in particular a process reported by the start-of-session sweep
\* or by a scan, and still alive, is not reported again by the operation that
\* follows.
C37_BlockedOncePerPid ==
    [][\A p \in DOMAIN procs :
          (/\ last.op \in {"start_session", "_check_processes"}
           /\ BlockedSignals(last, p) # {}
           /\ p \in DOMAIN procs')
             => BlockedSignals(last', p) = {}]_vars

\* C38: in COMPLETED the blocked count stored for the session equals the
\* manager's counter, which every operation of the session raised by exactly
\* the number of app_blocked signals the blocker emitted in it, whether or not
\* record_blocked_app failed.
C38_PersistedBlockedCount ==
    /\ [](current_state = COMPLETED
             => /\ session_id \in 1..Len(db)
                /\ db[session_id].apps_blocked_count = apps_blocked_count)
    /\ [][(session_id # None /\ session_id' = session_id)
             => apps_blocked_count' =
                   apps_blocked_count + CountSig(last'.events, "app_blocked")]_vars

C38_Witness ==
    /\ current_state = COMPLETED
    /\ ChangesTo(last, COMPLETED) # {}
    /\ apps_blocked_count = 2
    /\ db[session_id].apps_blocked_count = 2

\* C39: while the state is PAUSED no tick runs and session_ended is emitted by
\* nothing but a call of end_session, however long the pause lasts; when
\* resume_session returns with the planned duration over, the tick that follows
\* reports a remaining time of 0 and calls end_session with emergency_exit false: the state enters ENDING and,
\* the store working, COMPLETED with the session stored as completed and
\* session_ended carrying false.
C39_PausedPastDuration ==
    /\ [][current_state = PAUSED
             => /\ last'.op # "_update_session"
                /\ EndedSignals(last') # {} => last'.op = "end_session"]_vars
    /\ [][(/\ last.op = "resume_session"
           /\ last.ret
           /\ now - session_start_time >= session_duration
           /\ last'.op = "_update_session")
             => /\ \E i \in 1..Len(last'.events) :
                      last'.events[i].sig = "session_updated" /\ last'.events[i].pid = 0
                /\ ChangesTo(last', ENDING) # {}
                /\ \E i \in 1..Len(last'.store) : last'.store[i].call = "end_session"
                /\ StoreWorked(last')
                      => /\ current_state' = COMPLETED
                         /\ db'[session_id].status = "completed"
                         /\ EndedSignals(last') # {}
                         /\ \A i \in EndedSignals(last') : ~last'.events[i].flag]_vars

C39_Witness ==
    /\ last.op = "resume_session"
    /\ last.ret
    /\ current_state = ACTIVE
    /\ session_timer
    /\ now - session_start_time >= session_duration

\* C40: a reset() called in ACTIVE or PAUSED with the store working calls the
\* store's end_session for the session, which stores it as an emergency exit,
\* and emits session_ended with emergency_exit true, before the state is IDLE.
C40_ResetEndsSession ==
    [][(/\ last'.op = "reset"
        /\ current_state \in {ACTIVE, PAUSED}
        /\ StoreWorked(last'))
          => /\ current_state' = IDLE
             /\ \E i \in 1..Len(last'.store) :
                   last'.store[i].call = "end_session" /\ last'.store[i].id = session_id
             /\ db'[session_id].status = "emergency_exit"
             /\ \E i \in EndedSignals(last') : last'.events[i].flag]_vars

====
